---------------------------- MODULE Spec2Model ----------------------------
(***************************************************************************)
(* A model of tools/parse_stellaris_save.py: the text loader, the signal   *)
(* extractor, the optional Steam news fetcher and the entry point main().  *)
(*                                                                         *)
(* Texts are sequences of tokens.  A token is one character ("=", " ",     *)
(* "-", ".", a digit, a letter) or one whole identifier of the save format *)
(* ("alloys", "num_pops", ...), which stands for its run of word           *)
(* characters.  Python floats are modelled as exact rationals <<n, d>>     *)
(* with d > 0, kept in lowest terms, so equal numbers are equal values.    *)
(***************************************************************************)
EXTENDS Integers, Sequences, FiniteSets, TLC

VARIABLES
    pc,       \* position of the run: which statement of main() is next
    args,     \* argparse result: [suffix, with_steam]
    fs,       \* the file at save_path: [exists, zip, names, gamestate, meta, raw]
    net,      \* what the outbound request meets (reachability, response body)
    text,     \* main(): text
    series,   \* extract_meta(): the lists pops, planets, alloys, energy
    out,      \* extract_meta(): out / main(): out
    stdout,   \* what the process printed, one element per print
    calls     \* the calls main() made so far, in order

vars == <<pc, args, fs, net, text, series, out, stdout, calls>>

None == "None"

-----------------------------------------------------------------------------
(* Exact arithmetic standing for Python's float arithmetic.                *)

Abs(x) == IF x < 0 THEN -x ELSE x

RECURSIVE Gcd(_, _)
Gcd(a, b) == IF b = 0 THEN a ELSE Gcd(b, a % b)

\* n / d in lowest terms, d > 0
Rat(n, d) == LET g == Gcd(Abs(n), d) IN <<n \div g, d \div g>>

Zero == <<0, 1>>
One == <<1, 1>>
FromInt(n) == <<n, 1>>

RAdd(a, b) == Rat(a[1] * b[2] + b[1] * a[2], a[2] * b[2])
RMul(a, b) == Rat(a[1] * b[1], a[2] * b[2])
\* a / b for b # 0
RDiv(a, b) ==
    IF b[1] > 0 THEN Rat(a[1] * b[2], a[2] * b[1])
    ELSE Rat(-(a[1] * b[2]), -(a[2] * b[1]))
RLt(a, b) == a[1] * b[2] < b[1] * a[2]
RLe(a, b) == a[1] * b[2] <= b[1] * a[2]
\* Python's max(a, b) and min(a, b): the first argument unless the second beats it
RMax(a, b) == IF RLt(a, b) THEN b ELSE a
RMin(a, b) == IF RLt(b, a) THEN b ELSE a

RECURSIVE RSum(_)
RSum(s) == IF s = <<>> THEN Zero ELSE RAdd(s[1], RSum(Tail(s)))

RECURSIVE ISum(_)
ISum(s) == IF s = <<>> THEN 0 ELSE s[1] + ISum(Tail(s))

SeqsUpTo(S, n) == UNION {[1..k -> S] : k \in 0..n}

-----------------------------------------------------------------------------
(* ratio(num, den)                                                         *)

\* ratio without the clamp
ratio_unclamped(num, den) ==
    IF RLe(den, Zero) THEN Zero ELSE RDiv(num, den)

ratio(num, den) ==
    IF RLe(den, Zero) THEN Zero
    ELSE RMax(Zero, RMin(One, RDiv(num, den)))

-----------------------------------------------------------------------------
(* Tokens and str.lower()                                                  *)

NUM_KEYS == <<"num_pops", "num_planets", "alloys", "energy">>

\* BOOL_KEYS: output key -> the patterns searched for
BOOL_KEYS ==
    [bio_ascension |-> {"ap_engineered_evolution", "ap_evolutionary_mastery"},
     machine_age_virtuality |-> {"virtuality", "machine_age"},
     shattered_ring_origin |-> {"origin_shattered_ring"}]

Digits == <<"0", "1", "2", "3", "4", "5", "6", "7", "8", "9">>
IsDigit(t) == \E i \in 1..Len(Digits) : Digits[i] = t
DigitVal(t) == (CHOOSE i \in 1..Len(Digits) : Digits[i] = t) - 1

\* \s
IsSpace(t) == t \in {" ", "\n"}
\* \w: every token but the punctuation and the white space is a run of word characters
IsWord(t) == t \notin {" ", "\n", "=", "-", ".", "{", "}"}

\* str.lower() of one token
LowerTok(t) ==
    CASE t = "ALLOYS" -> "alloys"
      [] t = "Energy" -> "energy"
      [] t = "NUM_POPS" -> "num_pops"
      [] t = "Num_Planets" -> "num_planets"
      [] t = "Origin_Shattered_Ring" -> "origin_shattered_ring"
      [] t = "AP_ENGINEERED_EVOLUTION" -> "ap_engineered_evolution"
      [] t = "X" -> "x"
      [] t = "B" -> "b"
      [] t = "V" -> "v"
      [] OTHER -> t

\* text.lower()
lower(s) == [i \in 1..Len(s) |-> LowerTok(s[i])]

-----------------------------------------------------------------------------
(* The regular expressions of extract_meta                                 *)
(*   unsigned:  \bKEY\s*=\s*(\d+)                                          *)
(*   signed:    \bKEY\s*=\s*(-?\d+(?:\.\d+)?)                              *)

At(s, i) == IF i \in 1..Len(s) THEN s[i] ELSE None

\* the first position at or after i that holds no white space (\s*, greedy)
RECURSIVE SkipSpace(_, _)
SkipSpace(s, i) == IF IsSpace(At(s, i)) THEN SkipSpace(s, i + 1) ELSE i

\* the first position at or after i that holds no digit (\d*, greedy)
RECURSIVE SkipDigits(_, _)
SkipDigits(s, i) == IF IsDigit(At(s, i)) THEN SkipDigits(s, i + 1) ELSE i

\* \b before a word character at i
WordBoundary(s, i) == i = 1 \/ ~IsWord(s[i - 1])

NoMatch == [ok |-> FALSE, from |-> 0, to |-> 0, next |-> 0]

\* the number pattern at position k: the group is s[k .. to]
NumberAt(signed, s, k) ==
    LET d == IF signed /\ At(s, k) = "-" THEN k + 1 ELSE k
        e == SkipDigits(s, d)
        f == IF signed /\ At(s, e) = "." /\ IsDigit(At(s, e + 1))
             THEN SkipDigits(s, e + 1) ELSE e
    IN  IF e = d THEN NoMatch
        ELSE [ok |-> TRUE, from |-> k, to |-> f - 1, next |-> f]

\* re.match of the pattern for key at position i
MatchAt(key, signed, s, i) ==
    IF At(s, i) # key \/ ~WordBoundary(s, i) THEN NoMatch
    ELSE LET j == SkipSpace(s, i + 1)
         IN  IF At(s, j) # "=" THEN NoMatch
             ELSE NumberAt(signed, s, SkipSpace(s, j + 1))

\* re.findall: scan from the left, resume after each match; the groups in order
RECURSIVE FindFrom(_, _, _, _)
FindFrom(key, signed, s, i) ==
    IF i > Len(s) THEN <<>>
    ELSE LET m == MatchAt(key, signed, s, i)
         IN  IF m.ok
             THEN <<SubSeq(s, m.from, m.to)>> \o FindFrom(key, signed, s, m.next)
             ELSE FindFrom(key, signed, s, i + 1)

\* re.search in the place of re.findall: the first match only
findall_first(key, signed, s) ==
    IF FindFrom(key, signed, s, 1) = <<>> THEN <<>> ELSE <<FindFrom(key, signed, s, 1)[1]>>

findall(key, signed, s) == FindFrom(key, signed, s, 1)

\* re.search(p, lower) for a literal pattern p
search(p, s) == \E i \in 1..Len(s) : s[i] = p

\* int(m) of a run of digits
RECURSIVE int(_)
int(m) == IF m = <<>> THEN 0 ELSE 10 * int(SubSeq(m, 1, Len(m) - 1)) + DigitVal(m[Len(m)])

RECURSIVE Pow10(_)
Pow10(n) == IF n = 0 THEN 1 ELSE 10 * Pow10(n - 1)

\* float(m) of [-]digits[.digits]
float(m) ==
    LET neg == m[1] = "-"
        u == IF neg THEN Tail(m) ELSE m
        dot == IF \E i \in 1..Len(u) : u[i] = "."
               THEN CHOOSE i \in 1..Len(u) : u[i] = "." ELSE Len(u) + 1
        ip == SubSeq(u, 1, dot - 1)
        fp == SubSeq(u, dot + 1, Len(u))
        mag == Rat(int(ip) * Pow10(Len(fp)) + int(fp), Pow10(Len(fp)))
    IN  IF neg THEN <<-mag[1], mag[2]>> ELSE mag

\* the four list comprehensions over re.findall
find_series(low) ==
    [pops |-> [i \in 1..Len(findall("num_pops", FALSE, low)) |->
                  int(findall("num_pops", FALSE, low)[i])],
     planets |-> [i \in 1..Len(findall("num_planets", FALSE, low)) |->
                  int(findall("num_planets", FALSE, low)[i])],
     alloys |-> [i \in 1..Len(findall("alloys", TRUE, low)) |->
                  float(findall("alloys", TRUE, low)[i])],
     energy |-> [i \in 1..Len(findall("energy", TRUE, low)) |->
                  float(findall("energy", TRUE, low)[i])]]

-----------------------------------------------------------------------------
(* extract_meta: the totals and the derived fields                         *)

POPS_PER_PLANET == 40
POPS_PER_CAPACITY == 28

total_pops(se) == IF se.pops # <<>> THEN ISum(se.pops) ELSE 0
total_planets(se) == IF se.planets # <<>> THEN ISum(se.planets) ELSE 0
total_alloys(se) == IF se.alloys # <<>> THEN RSum(se.alloys) ELSE Zero
total_energy(se) == IF se.energy # <<>> THEN RSum(se.energy) ELSE Zero

IMax(a, b) == IF b > a THEN b ELSE a

\* pop_growth_pressure without the floor of the denominator
pop_growth_pressure_nofloor(se) ==
    ratio(FromInt(total_pops(se)), FromInt(total_planets(se) * POPS_PER_PLANET))

pop_growth_pressure(se) ==
    ratio(FromInt(total_pops(se)),
          FromInt(IMax(1, total_planets(se) * POPS_PER_PLANET)))

planet_capacity_pressure(se) ==
    ratio(FromInt(total_planets(se)),
          RMax(One, IF total_pops(se) # 0
                    THEN Rat(total_pops(se), POPS_PER_CAPACITY) ELSE One))

alloy_density(se) ==
    ratio(total_alloys(se), RMax(One, RAdd(total_energy(se), total_alloys(se))))

\* our_total_economy without the floor
our_total_economy_nofloor(se) ==
    RAdd(RMul(total_energy(se), Rat(35, 100)), RMul(total_alloys(se), Rat(65, 100)))

our_total_economy(se) ==
    RMax(One, RAdd(RMul(total_energy(se), Rat(35, 100)),
                   RMul(total_alloys(se), Rat(65, 100))))

\* enemy_total_economy as an offset instead of a factor
enemy_total_economy_offset(our) == RMax(One, RAdd(our, Rat(15, 100)))

enemy_total_economy(our) == RMax(One, RMul(our, Rat(115, 100)))

\* lines 49-50: the boolean detectors
bool_flags(low) ==
    [k \in DOMAIN BOOL_KEYS |-> \E p \in BOOL_KEYS[k] : search(p, low)]

\* lines 57-68: out, given the detectors' results and the four lists
derive(flags, se) ==
    [bio_ascension |-> flags.bio_ascension,
     machine_age_virtuality |-> flags.machine_age_virtuality,
     shattered_ring_origin |-> flags.shattered_ring_origin,
     pop_growth_pressure |-> pop_growth_pressure(se),
     planet_capacity_pressure |-> planet_capacity_pressure(se),
     alloy_density |-> alloy_density(se),
     our_total_economy |-> our_total_economy(se),
     enemy_total_economy |-> enemy_total_economy(our_total_economy(se))]

extract_meta(t) == derive(bool_flags(lower(t)), find_series(lower(t)))

-----------------------------------------------------------------------------
(* load_save_text                                                          *)

ARCHIVE_SUFFIXES == {".zip", ".sav"}

\* path.suffix, not lower-cased
suffix_as_given(sfx) == sfx

\* path.suffix.lower()
suffix_lower(sfx) ==
    CASE sfx = ".ZIP" -> ".zip"
      [] sfx = ".Sav" -> ".sav"
      [] sfx = ".TXT" -> ".txt"
      [] OTHER -> sfx

BadByte == "\\xff"

\* bytes.decode("utf-8", errors="ignore"): the bytes that are no UTF-8 are dropped
decode(b) == SelectSeq(b, LAMBDA t : t # BadByte)

Returned(v) == [ok |-> TRUE, value |-> v]
Raised(cls, a) == [ok |-> FALSE, cls |-> cls, args |-> a]

\* path.read_text(encoding="utf-8", errors="ignore")
read_text(f) ==
    IF ~f.exists THEN Raised("FileNotFoundError", <<"No such file or directory">>)
    ELSE Returned(decode(f.raw))

\* the loop over ("gamestate", "meta") inside the with block, then the fall through
RECURSIVE read_members(_, _)
read_members(f, names) ==
    IF names = <<>> THEN read_text(f)
    ELSE IF names[1] \in f.names THEN Returned(decode(f.member[names[1]]))
    ELSE read_members(f, Tail(names))

load_save_text(sfx, f) ==
    IF suffix_lower(sfx) \in ARCHIVE_SUFFIXES
    THEN IF ~f.exists THEN Raised("FileNotFoundError", <<"No such file or directory">>)
         ELSE IF ~f.zip THEN Raised("BadZipFile", <<"File is not a zip file">>)
         ELSE read_members(f, <<"gamestate", "meta">>)
    ELSE read_text(f)

-----------------------------------------------------------------------------
(* fetch_steam_meta                                                        *)

NEWS_COUNT == 5

\* a JSON value under a key of a news item: a string, a number, or no such key
StrVal(chars) == [kind |-> "str", s |-> chars]
Absent == [kind |-> "absent", s |-> <<>>]
NotAString == [kind |-> "int", s |-> <<>>]

\* str(exc): BaseException.__str__ gives "" for no arguments and the argument for
\* one; URLError.__str__ wraps its reason.  A string is the sequence of its pieces.
str(exc) ==
    IF exc.cls = "URLError" THEN <<"<urlopen error ", exc.args[1], ">">>
    ELSE IF exc.args = <<>> THEN <<>>
    ELSE <<exc.args[1]>>

\* urlopen(req, timeout=timeout) and r.read(), then json.loads
read_payload(n) ==
    CASE n.reach = "refused" -> Raised("URLError", <<"[Errno 111] Connection refused">>)
      [] n.reach = "timeout" -> Raised("TimeoutError", <<"The read operation timed out">>)
      [] n.reach = "oom" -> Raised("MemoryError", <<>>)
      [] n.body.kind = "malformed" -> Raised("JSONDecodeError", <<"Expecting value: line 1 column 1 (char 0)">>)
      [] OTHER -> Returned(n.body)

\* i.get("title", "") + " " + i.get("contents", "")
item_text(i) ==
    (IF i.title.kind = "absent" THEN <<>> ELSE i.title.s) \o <<" ">> \o
    (IF i.contents.kind = "absent" THEN <<>> ELSE i.contents.s)

\* " ".join(...)
RECURSIVE join(_)
join(parts) ==
    IF parts = <<>> THEN <<>>
    ELSE IF Len(parts) = 1 THEN parts[1]
    ELSE parts[1] \o <<" ">> \o join(Tail(parts))

\* kw in blob
contains(blob, kw) ==
    \E i \in 0..(Len(blob) - Len(kw)) : SubSeq(blob, i + 1, i + Len(kw)) = kw

KW_BIO == <<"b", "i", "o">>
KW_GENESIS == <<"g", "e", "n", "e", "s", "i", "s">>
KW_MACHINE == <<"m", "a", "c", "h", "i", "n", "e">>
KW_VIRTUAL == <<"v", "i", "r", "t", "u", "a", "l">>

\* 0.65
CONF_HIT == Rat(65, 100)

\* payload.get("appnews", {}).get("newsitems", [])
news_items(payload) ==
    IF ~payload.has_appnews \/ ~payload.has_newsitems THEN <<>>
    ELSE payload.newsitems

\* the scores of a blob
score(blob) ==
    [bio_rush_confidence |->
        IF contains(blob, KW_BIO) \/ contains(blob, KW_GENESIS) THEN CONF_HIT ELSE Zero,
     virtuality_confidence |->
        IF contains(blob, KW_MACHINE) \/ contains(blob, KW_VIRTUAL) THEN CONF_HIT ELSE Zero]

fetch_steam_meta(n) ==
    LET r == read_payload(n)
    IN  IF ~r.ok THEN r
        ELSE IF r.value.kind # "dict"
        THEN Raised("AttributeError", <<"'list' object has no attribute 'get'">>)
        ELSE LET items == news_items(r.value)
             IN  IF \E k \in 1..Len(items) :
                        items[k].title.kind = "int" \/ items[k].contents.kind = "int"
                 THEN Raised("TypeError", <<"can only concatenate str (not \"int\") to str">>)
                 ELSE Returned(score(lower(join([k \in 1..Len(items) |-> item_text(items[k])]))))

\* the except branch of main()
steam_fallback(exc) ==
    [error |-> str(exc), bio_rush_confidence |-> Zero, virtuality_confidence |-> Zero]

-----------------------------------------------------------------------------
(* main(): one action per statement                                        *)

EmptySeries == [pops |-> <<>>, planets |-> <<>>, alloys |-> <<>>, energy |-> <<>>]
NoFlags == [k \in DOMAIN BOOL_KEYS |-> FALSE]

\* The statement main() is at, and the way the call it makes ends.  Every action is
\* its guard and assignments to all the variables, so it can be taken exactly when
\* its guard holds.
AtLoadReturn == pc = "load" /\ load_save_text(args.suffix, fs).ok
AtLoadRaise == pc = "load" /\ ~load_save_text(args.suffix, fs).ok
AtExtract == pc = "extract"
AtFetchReturn == pc = "fetch" /\ fetch_steam_meta(net).ok
AtFetchRaise == pc = "fetch" /\ ~fetch_steam_meta(net).ok
AtPrint == pc = "print"
CanStep == AtLoadReturn \/ AtLoadRaise \/ AtExtract \/ AtFetchReturn \/ AtFetchRaise \/ AtPrint

\* text = load_save_text(args.save_path), returning
LoadReturn ==
    /\ AtLoadReturn
    /\ text' = load_save_text(args.suffix, fs).value
    /\ pc' = "extract"
    /\ calls' = Append(calls, "load_save_text")
    /\ UNCHANGED <<args, fs, net, series, out, stdout>>

\* the loader's exception caught and the run going on with an empty text
LoadRaiseCaught ==
    /\ AtLoadRaise
    /\ text' = <<>>
    /\ pc' = "extract"
    /\ calls' = Append(calls, "load_save_text")
    /\ UNCHANGED <<args, fs, net, series, out, stdout>>

\* text = load_save_text(args.save_path), raising: nothing catches it
LoadRaise ==
    /\ AtLoadRaise
    /\ pc' = "failed"
    /\ calls' = Append(calls, "load_save_text")
    /\ UNCHANGED <<args, fs, net, text, series, out, stdout>>

\* the fetcher called whatever the flag
ExtractAlwaysFetch ==
    /\ AtExtract
    /\ series' = find_series(lower(text))
    /\ out' = extract_meta(text)
    /\ pc' = "fetch"
    /\ calls' = Append(calls, "extract_meta")
    /\ UNCHANGED <<args, fs, net, text, stdout>>

\* out = extract_meta(text), then the test of args.with_steam
Extract ==
    /\ AtExtract
    /\ series' = find_series(lower(text))
    /\ out' = extract_meta(text)
    /\ pc' = IF args.with_steam THEN "fetch" ELSE "print"
    /\ calls' = Append(calls, "extract_meta")
    /\ UNCHANGED <<args, fs, net, text, stdout>>

\* the try branch: out["steam_meta_signals"] = fetch_steam_meta()
FetchReturn ==
    /\ AtFetchReturn
    /\ out' = ("steam_meta_signals" :> fetch_steam_meta(net).value) @@ out
    /\ pc' = "print"
    /\ calls' = Append(calls, "fetch_steam_meta")
    /\ UNCHANGED <<args, fs, net, text, series, stdout>>

\* the except branch
FetchRaise ==
    /\ AtFetchRaise
    /\ out' = ("steam_meta_signals" :> steam_fallback(fetch_steam_meta(net))) @@ out
    /\ pc' = "print"
    /\ calls' = Append(calls, "fetch_steam_meta")
    /\ UNCHANGED <<args, fs, net, text, series, stdout>>

\* print(json.dumps(out, indent=2, sort_keys=True))
PrintJson ==
    /\ AtPrint
    /\ stdout' = Append(stdout, out)
    /\ pc' = "done"
    /\ calls' = Append(calls, "print")
    /\ UNCHANGED <<args, fs, net, text, series, out>>

\* lines 57-69 of extract_meta on given lists
Derive ==
    /\ pc = "derive"
    /\ out' = derive(NoFlags, series)
    /\ pc' = "derived"
    /\ UNCHANGED <<args, fs, net, text, series, stdout, calls>>

-----------------------------------------------------------------------------
(* The inputs                                                              *)

MaxFrags == 2
MaxOcc == 2
MaxItems == 6

Suffixes == {".zip", ".sav", ".ZIP", ".Sav", ".txt", ".TXT", ""}

Bytes1 == <<"origin_shattered_ring", "\n", "alloys", "=", "5", "0">>
Bytes2 == <<"num_pops", "=", "1", BadByte, "0", "\n", "virtuality">>
Bytes3 == <<"Origin_Shattered_Ring", " ", "energy", "=", "-", "2", ".", "5">>
Contents == {Bytes1, Bytes2, Bytes3}

NoFile == [exists |-> FALSE, zip |-> FALSE, names |-> {}, member |-> <<>>, raw |-> <<>>]

Archives ==
    {[exists |-> TRUE, zip |-> TRUE, names |-> DOMAIN m, member |-> m, raw |-> <<BadByte>>] :
        m \in UNION {[ns -> Contents] : ns \in SUBSET {"gamestate", "meta", "other"}}}

PlainFiles ==
    {[exists |-> TRUE, zip |-> FALSE, names |-> {}, member |-> <<>>, raw |-> b] : b \in Contents}

Files == {NoFile} \cup Archives \cup PlainFiles

ItemBio == [title |-> StrVal(<<"B", "i", "o">>), contents |-> Absent]
ItemSplit == [title |-> StrVal(<<"b", "i">>), contents |-> StrVal(<<"o">>)]
ItemPlain == [title |-> StrVal(<<"p">>), contents |-> StrVal(<<>>)]
ItemVirtual ==
    [title |-> Absent, contents |-> StrVal(<<"V", "i", "r", "t", "u", "a", "l", "l", "y">>)]
ItemGenesis == [title |-> StrVal(KW_GENESIS), contents |-> StrVal(KW_MACHINE \o <<"s">>)]
ItemBad == [title |-> StrVal(<<"p">>), contents |-> NotAString]
ItemKinds == {ItemBio, ItemSplit, ItemPlain, ItemVirtual, ItemGenesis, ItemBad}

\* a response body: no JSON, a JSON list, or a JSON object with or without the keys
Payload(kind, a, n, items) ==
    [kind |-> kind, has_appnews |-> a, has_newsitems |-> n, newsitems |-> items]
Response(items) == [reach |-> "ok", body |-> Payload("dict", TRUE, TRUE, items)]
NoNet == [reach |-> "refused", body |-> Payload("malformed", FALSE, FALSE, <<>>)]

Failures ==
    {[reach |-> r, body |-> Payload("malformed", FALSE, FALSE, <<>>)] :
        r \in {"refused", "timeout", "oom", "ok"}}
    \cup {[reach |-> "ok", body |-> Payload("list", FALSE, FALSE, <<>>)]}

OddPayloads ==
    {[reach |-> "ok", body |-> Payload("dict", FALSE, FALSE, <<>>)],
     [reach |-> "ok", body |-> Payload("dict", TRUE, FALSE, <<>>)]}

Responses == {Response(items) : items \in SeqsUpTo(ItemKinds, MaxItems)}

MainNets ==
    Failures \cup OddPayloads
    \cup {Response(<<ItemBio>>), Response(<<ItemPlain, ItemBad>>), Response(<<ItemSplit, ItemVirtual>>)}

Forms(key) ==
    {<<key, "=", "3", "\n">>,
     <<key, " ", "=", " ", "1", "0", "\n">>,
     <<key, "=", "-", "3", "\n">>,
     <<key, "=", "3", ".", "5", "\n">>,
     <<key, "=", "-", "0", ".", "5", " ">>,
     <<key, "=", "3">>}

Fragments ==
    UNION {Forms(NUM_KEYS[k]) : k \in 1..Len(NUM_KEYS)}
    \cup {<<"ALLOYS", "=", "5", "\n">>,
          <<"energy", "=", ".", "5", "\n">>,
          <<"num_pops", " ", "3", "\n">>,
          <<"alloys", "=", "3", ".", "\n">>,
          <<"origin_shattered_ring", "\n">>}

RECURSIVE Concat(_)
Concat(fs_) == IF fs_ = <<>> THEN <<>> ELSE fs_[1] \o Concat(Tail(fs_))

Texts == {Concat(f) : f \in SeqsUpTo(Fragments, MaxFrags)}

PopVals == {0, 10, 30}
PlanetVals == {1, 2}
AlloyVals == {Rat(50, 1), Rat(-3, 2)}
EnergyVals == {Rat(50, 1), Rat(-60, 1)}

SeriesInputs ==
    [pops : SeqsUpTo(PopVals, MaxOcc), planets : SeqsUpTo(PlanetVals, MaxOcc),
     alloys : SeqsUpTo(AlloyVals, MaxOcc), energy : SeqsUpTo(EnergyVals, MaxOcc)]

-----------------------------------------------------------------------------
(* The specifications                                                      *)

Idle ==
    /\ text = <<>>
    /\ series = EmptySeries
    /\ out = <<>>
    /\ stdout = <<>>
    /\ calls = <<>>

\* a run of main()
Init ==
    /\ pc = "load"
    /\ args \in [suffix : Suffixes, with_steam : BOOLEAN]
    /\ fs \in Files
    /\ net \in MainNets
    /\ Idle

Next == LoadReturn \/ LoadRaise \/ Extract \/ FetchReturn \/ FetchRaise \/ PrintJson

Spec == Init /\ [][Next]_vars

\* extract_meta on a text
InitText ==
    /\ pc = "extract"
    /\ args = [suffix |-> ".txt", with_steam |-> FALSE]
    /\ fs = NoFile
    /\ net = NoNet
    /\ text \in Texts
    /\ series = EmptySeries
    /\ out = <<>>
    /\ stdout = <<>>
    /\ calls = <<>>

NextText == Extract

SpecText == InitText /\ [][NextText]_vars

\* the arithmetic of extract_meta on given lists
InitSeries ==
    /\ pc = "derive"
    /\ args = [suffix |-> ".txt", with_steam |-> FALSE]
    /\ fs = NoFile
    /\ net = NoNet
    /\ text = <<>>
    /\ series \in SeriesInputs
    /\ out = <<>>
    /\ stdout = <<>>
    /\ calls = <<>>

NextSeries == Derive

SpecSeries == InitSeries /\ [][NextSeries]_vars

\* main() from the call of fetch_steam_meta on, on a response
InitFetch ==
    /\ pc = "fetch"
    /\ args = [suffix |-> ".txt", with_steam |-> TRUE]
    /\ fs = NoFile
    /\ net \in Responses
    /\ text = <<>>
    /\ series = EmptySeries
    /\ out = extract_meta(<<>>)
    /\ stdout = <<>>
    /\ calls = <<"load_save_text", "extract_meta">>

NextFetch == FetchReturn \/ FetchRaise \/ PrintJson

SpecFetch == InitFetch /\ [][NextFetch]_vars

-----------------------------------------------------------------------------
(* Claims about the arithmetic of extract_meta (SpecSeries)                *)

InUnit(x) == RLe(Zero, x) /\ RLe(x, One)

\* C1: whatever the four lists sum to, pop_growth_pressure, planet_capacity_pressure
\* and alloy_density lie in [0, 1] and both economy totals are at least 1.
C1_Ranges ==
    pc = "derived" =>
        /\ InUnit(out.pop_growth_pressure)
        /\ InUnit(out.planet_capacity_pressure)
        /\ InUnit(out.alloy_density)
        /\ RLe(One, out.our_total_economy)
        /\ RLe(One, out.enemy_total_economy)

\* a negative alloy sum, a negative energy sum, no planets and no pops
C1_Witness ==
    /\ pc = "derived"
    /\ RLt(RSum(series.alloys), Zero)
    /\ RLt(RSum(series.energy), Zero)
    /\ series.planets = <<>>
    /\ series.pops = <<>>

RefClamp(x) == IF RLt(x, Zero) THEN Zero ELSE IF RLt(One, x) THEN One ELSE x
RefRatio(n, d) == RefClamp(RDiv(n, d))
RefFloor1(x) == IF RLe(One, x) THEN x ELSE One
RefPops == FromInt(ISum(series.pops))
RefPlanets == FromInt(ISum(series.planets))
RefAlloys == RSum(series.alloys)
RefEnergy == RSum(series.energy)

\* C7: the derived fields equal the reference formulas with ratio = clamp(n/d, 0, 1);
\* 10 pops on 1 planet give pop_growth_pressure 1/4; 50 alloys and 50 energy give
\* alloy_density 1/2 and our_total_economy 50.
C7_Formulas ==
    pc = "derived" =>
        /\ out.pop_growth_pressure =
              RefRatio(RefPops, RefFloor1(RMul(RefPlanets, FromInt(40))))
        /\ out.planet_capacity_pressure =
              RefRatio(RefPlanets,
                       RefFloor1(IF series.pops # <<>> THEN RDiv(RefPops, FromInt(28)) ELSE One))
        /\ out.alloy_density = RefRatio(RefAlloys, RefFloor1(RAdd(RefEnergy, RefAlloys)))
        /\ out.our_total_economy =
              RefFloor1(RAdd(RMul(RefEnergy, Rat(35, 100)), RMul(RefAlloys, Rat(65, 100))))
        /\ (RefPops = FromInt(10) /\ RefPlanets = One => out.pop_growth_pressure = Rat(1, 4))
        /\ (RefAlloys = FromInt(50) /\ RefEnergy = FromInt(50) =>
                out.alloy_density = Rat(1, 2) /\ out.our_total_economy = FromInt(50))

C7_Witness ==
    /\ pc = "derived"
    /\ RefPops = FromInt(10) /\ RefPlanets = One
    /\ RefAlloys = FromInt(50) /\ RefEnergy = FromInt(50)

-----------------------------------------------------------------------------
(* Claims about the numeric extraction (SpecText)                          *)

Extracted == pc \in {"fetch", "print", "done"}

AllDigits(s, a, b) == a <= b /\ \A i \in a..b : IsDigit(s[i])
AllSpace(s, a, b) == \A i \in a..b : IsSpace(s[i])

\* s[a..b] reads as a number: digits, or with a sign and a decimal part allowed,
\* [-]digits[.digits]
IsNumber(fractional, s, a, b) ==
    /\ 1 <= a /\ b <= Len(s)
    /\ IF ~fractional THEN AllDigits(s, a, b)
       ELSE \E d \in {a, a + 1} :
              /\ d = a + 1 => s[a] = "-"
              /\ \E e \in d..b :
                    /\ AllDigits(s, d, e)
                    /\ e = b \/ (s[e + 1] = "." /\ AllDigits(s, e + 2, b))

\* the number of an occurrence is the longest one that starts at a
NumberEnd(fractional, s, a) ==
    CHOOSE b \in a..Len(s) :
        /\ IsNumber(fractional, s, a, b)
        /\ \A c \in (b + 1)..Len(s) : ~IsNumber(fractional, s, a, c)

\* where the number of an occurrence of `key = number` at position i starts:
\* the set is empty when position i holds no occurrence
NumberStarts(key, fractional, s, i) ==
    {a \in (i + 2)..Len(s) :
        /\ s[i] = key
        /\ i = 1 \/ ~IsWord(s[i - 1])
        /\ \E j \in (i + 1)..(a - 1) :
              s[j] = "=" /\ AllSpace(s, i + 1, j - 1) /\ AllSpace(s, j + 1, a - 1)
        /\ \E b \in a..Len(s) : IsNumber(fractional, s, a, b)}

\* the value of the decimal numeral s[a..b]
RECURSIVE DigitsValue(_, _, _)
DigitsValue(s, a, b) == IF b < a THEN 0 ELSE DigitVal(s[b]) + 10 * DigitsValue(s, a, b - 1)

NumberValue(s, a, b) ==
    LET d == IF s[a] = "-" THEN a + 1 ELSE a
        dots == {i \in d..b : s[i] = "."}
        e == IF dots = {} THEN b ELSE (CHOOSE i \in dots : TRUE) - 1
        whole == FromInt(DigitsValue(s, d, e))
        part == IF dots = {} THEN Zero
                ELSE Rat(DigitsValue(s, e + 2, b), Pow10(b - e - 1))
        mag == RAdd(whole, part)
    IN  IF s[a] = "-" THEN <<-mag[1], mag[2]>> ELSE mag

RECURSIVE RSumOver(_, _, _, _)
RSumOver(key, fractional, s, positions) ==
    IF positions = {} THEN Zero
    ELSE LET i == CHOOSE x \in positions : TRUE
             a == CHOOSE x \in NumberStarts(key, fractional, s, i) : TRUE
         IN  RAdd(NumberValue(s, a, NumberEnd(fractional, s, a)),
                  RSumOver(key, fractional, s, positions \ {i}))

\* the sum of the numbers of all occurrences of `key = number` in s
OccurrenceSum(key, fractional, s) ==
    RSumOver(key, fractional, s,
             {i \in 1..Len(s) : NumberStarts(key, fractional, s, i) # {}})

\* the four totals extract_meta uses, in the order of NUM_KEYS
CodeTotals ==
    <<FromInt(total_pops(series)), FromInt(total_planets(series)),
      total_alloys(series), total_energy(series)>>

\* C4 as stated: each of the four totals is the sum of the numbers of all occurrences
\* of `key = number`, the number possibly negative and/or decimal.
C4_AsStated ==
    Extracted =>
        \A k \in 1..Len(NUM_KEYS) :
            CodeTotals[k] = OccurrenceSum(NUM_KEYS[k], TRUE, lower(text))

\* C4 amended: the alloys and energy totals are the sums of the numbers of all their
\* occurrences, possibly negative and/or decimal; the num_pops and num_planets totals
\* are the sums over the occurrences whose number is a plain run of digits (a number
\* with a minus sign is no occurrence, of a decimal number only the digits before the
\* point count); no occurrence gives a total of zero.
C4_Totals ==
    Extracted =>
        /\ CodeTotals[1] = OccurrenceSum("num_pops", FALSE, lower(text))
        /\ CodeTotals[2] = OccurrenceSum("num_planets", FALSE, lower(text))
        /\ CodeTotals[3] = OccurrenceSum("alloys", TRUE, lower(text))
        /\ CodeTotals[4] = OccurrenceSum("energy", TRUE, lower(text))
        /\ \A k \in 1..Len(NUM_KEYS) :
              (\A i \in 1..Len(text) : lower(text)[i] # NUM_KEYS[k]) =>
                  CodeTotals[k] = Zero

\* two occurrences of alloys, the second negative and decimal, have been summed
C4_Witness ==
    /\ Extracted
    /\ Len(series.alloys) = 2
    /\ RLt(series.alloys[2], Zero) /\ series.alloys[2][2] # 1
    /\ total_alloys(series) = RAdd(series.alloys[1], series.alloys[2])

\* C5 as stated: with no matching numeric pattern the three ratios are 0.0 and both
\* economy totals are 1.0.
C5_AsStated ==
    (Extracted /\ series = EmptySeries) =>
        /\ out.pop_growth_pressure = Zero
        /\ out.planet_capacity_pressure = Zero
        /\ out.alloy_density = Zero
        /\ out.our_total_economy = One
        /\ out.enemy_total_economy = One

\* C5 amended: with no matching numeric pattern the three ratios are 0.0,
\* our_total_economy is 1.0 (the floor) and enemy_total_economy is 1.15.
C5_NoMatches ==
    (Extracted /\ series = EmptySeries) =>
        /\ out.pop_growth_pressure = Zero
        /\ out.planet_capacity_pressure = Zero
        /\ out.alloy_density = Zero
        /\ out.our_total_economy = One
        /\ out.enemy_total_economy = Rat(115, 100)

\* a text that names a key but holds no match
C5_Witness ==
    /\ Extracted
    /\ series = EmptySeries
    /\ \E i \in 1..Len(text) : text[i] = "num_pops"

-----------------------------------------------------------------------------
(* Claims about a run of main() (Spec)                                     *)

HasSteam(o) == "steam_meta_signals" \in DOMAIN o

\* C2 as stated: in a run with the flag, when fetch_steam_meta raises, the exception
\* does not end the run, and what the run prints holds steam_meta_signals with a
\* non-empty error string and both confidences 0.0.
C2_AsStated ==
    (args.with_steam /\ ~fetch_steam_meta(net).ok) =>
        /\ pc # "failed" \/ ~load_save_text(args.suffix, fs).ok
        /\ pc = "done" =>
              /\ Len(stdout) = 1
              /\ HasSteam(stdout[1])
              /\ "error" \in DOMAIN stdout[1].steam_meta_signals
              /\ stdout[1].steam_meta_signals.error # <<>>
              /\ stdout[1].steam_meta_signals.bio_rush_confidence = Zero
              /\ stdout[1].steam_meta_signals.virtuality_confidence = Zero

\* C3: in a run without the flag fetch_steam_meta is never called and nothing printed
\* holds a steam_meta_signals key, whatever the file holds and the network would do.
C3_NoSteamWithoutFlag ==
    ~args.with_steam =>
        /\ pc # "fetch"
        /\ \A i \in 1..Len(calls) : calls[i] # "fetch_steam_meta"
        /\ ~HasSteam(out)
        /\ \A i \in 1..Len(stdout) : ~HasSteam(stdout[i])

\* a finished run without the flag, the endpoint reachable and answering
C3_Witness ==
    /\ pc = "done"
    /\ ~args.with_steam
    /\ net.reach = "ok" /\ net.body.kind = "dict"
    /\ Len(stdout) = 1

\* the suffixes that are an archive suffix in some spelling of upper and lower case
ArchiveAnyCase == {".zip", ".ZIP", ".Zip", ".zIP", ".sav", ".SAV", ".Sav", ".sAv"}

\* the bytes the loader is to return, decoded
ExpectedBytes ==
    IF args.suffix \in ArchiveAnyCase /\ "gamestate" \in fs.names THEN fs.member["gamestate"]
    ELSE IF args.suffix \in ArchiveAnyCase /\ "meta" \in fs.names THEN fs.member["meta"]
    ELSE fs.raw

\* C8: once the loader has returned, the text is the decoded gamestate member of the
\* archive, else its meta member, else the file itself, when the suffix is an archive
\* suffix in any case, and the file itself otherwise; a file with another suffix is
\* never opened as an archive; the signals are those of that text alone.
C8_Loader ==
    /\ pc \notin {"load", "failed"} =>
          /\ text = SelectSeq(ExpectedBytes, LAMBDA t : t # BadByte)
          /\ fs.exists
    /\ (pc = "failed" /\ args.suffix \notin ArchiveAnyCase) => ~fs.exists
    /\ Extracted =>
          [k \in DOMAIN out \ {"steam_meta_signals"} |-> out[k]] =
              extract_meta(SelectSeq(ExpectedBytes, LAMBDA t : t # BadByte))

\* an archive under an upper-case suffix that holds both members, with different
\* contents, has been loaded and its gamestate read
C8_Witness ==
    /\ pc = "done"
    /\ args.suffix = ".ZIP"
    /\ {"gamestate", "meta"} \subseteq fs.names
    /\ fs.member["gamestate"] # fs.member["meta"]
    /\ fs.member["gamestate"] = Bytes1
    /\ out.shattered_ring_origin

IsPrefix(a, b) == Len(a) <= Len(b) /\ a = SubSeq(b, 1, Len(a))

\* C10: the calls of a run are always a prefix of loader, extractor, (fetcher,) print,
\* each made at most once; a failed loader ends the run with no other call and nothing
\* printed; a run that has not ended has printed nothing and takes another step; a
\* run that has ended has printed once, the print last, or failed with nothing printed.
C10_StraightLine ==
    /\ \/ IsPrefix(calls, <<"load_save_text", "extract_meta", "fetch_steam_meta", "print">>)
       \/ IsPrefix(calls, <<"load_save_text", "extract_meta", "print">>)
    /\ ~load_save_text(args.suffix, fs).ok =>
          /\ pc \in {"load", "failed"}
          /\ Len(calls) <= 1
          /\ stdout = <<>>
    /\ pc = "failed" => ~load_save_text(args.suffix, fs).ok /\ stdout = <<>>
    /\ pc \notin {"done", "failed"} => stdout = <<>> /\ CanStep
    /\ pc = "done" => Len(stdout) = 1 /\ calls[Len(calls)] = "print"
    /\ pc \in {"done", "failed"} => ~CanStep

\* a run with the flag whose file is no valid archive has failed
C10_Witness ==
    /\ pc = "failed"
    /\ fs.exists /\ ~fs.zip
    /\ args.with_steam
    /\ calls = <<"load_save_text">>

-----------------------------------------------------------------------------
(* Claim about fetch_steam_meta on a response (SpecFetch)                  *)

FirstItems(items) == SubSeq(items, 1, IF Len(items) < NEWS_COUNT THEN Len(items) ELSE NEWS_COUNT)

\* C9 as stated: the two scores are those of the lower-cased concatenation of at most
\* the first 5 news items of the response; later items never change them.
C9_AsStated ==
    (pc \in {"print", "done"} /\ fetch_steam_meta(net).ok) =>
        out.steam_meta_signals =
            score(lower(join([k \in 1..Len(FirstItems(net.body.newsitems)) |->
                                 item_text(net.body.newsitems[k])])))

=============================================================================
